---- MODULE Spec2Model ----
(***************************************************************************)
(* Model of the byte-transfer engine of nndownload (download_video and the *)
(* helpers it starts as threads).                                          *)
(*                                                                         *)
(*   SpecPlan  the partition arithmetic of the dispatch loop alone         *)
(*   SpecMT    the multi-threaded download: main thread, one worker per    *)
(*             partition, the progress thread                              *)
(*   FairSpecMT  SpecMT with every thread scheduled fairly                 *)
(*   SpecSS    the single-stream download with resume                      *)
(*   SpecHB    session creation and heartbeat over the videos of a run     *)
(*   SpecInt   the user's interrupt during a multi-threaded download       *)
(*   SpecSel   select_dmc_quality over candidate lists and requests        *)
(*   SpecDL    request_video up to the transfer: what is done in which     *)
(*             order, on which path                                        *)
(*   SpecNama  the live-stream websocket with its heartbeat task           *)
(*   FairSpecNama  SpecNama with the event loop running every ready task   *)
(*   SpecPL    get_playlist_from_m3u8 over the variant entries of a master *)
(*             playlist                                                    *)
(***************************************************************************)
EXTENDS Integers, Sequences, FiniteSets, TLC

\* ---- bounds of the model ----
MaxPlanLen == 12
MaxPlanThreads == 5
MaxLen == 4
MaxThreads == 2
MaxRemote == 4
MaxFile == 5

\* BLOCK_SIZE is 1024 in the source; the model scales it down so that
\* several blocks fit in the bounded lengths.
BLOCK_SIZE == 2

\* Values a byte of the remote content or of the local file may take.
Bytes == {0, 1}

VARIABLES
    video_len,        \* int(content-length) of the HEAD answer
    threads,          \* int(cmdl_opts.threads)
    i,                \* index of the dispatch loop
    parts,            \* the (start, end) pairs computed so far
    mpc,              \* position of the main thread in download_video
    wpc,              \* position of each download_video_part thread
    wpos,             \* current_pos of each worker
    wrem,             \* bytes left in each worker's response stream
    wtmp,             \* value of progress a worker has loaded for +=
    wdelta,           \* bytes_len of the update a worker is executing
    written,          \* file offsets each worker has written
    honoured,         \* worker's request was answered with its range
    progress,         \* the global progress counter
    reported,         \* sum of all bytes_len passed to completed updates
    rpc,              \* position of the show_multithread_progress thread
    finished,         \* local flag of show_multithread_progress
    joinlist,         \* threads the main thread still has to join
    outcome,          \* what download_video told its caller
    remote,           \* the remote content
    file,             \* the destination file
    file0,            \* the destination file before the download
    spc,              \* position in the single-stream download_video
    dl,               \* running offset of the single-stream download
    current_byte_pos, \* size of the existing file
    file_condition,   \* mode the destination is opened with
    resume_from,      \* first byte position of the Range header
    spos,             \* offset in remote of the next byte of the stream
    fpos,             \* position of the open destination file
    restarts,         \* recursive download_video calls made
    netfail,          \* a request of the single-stream download failed
    cur,              \* the video request_video is working on
    cpc,              \* position of the caller in request_video
    tblocks,          \* blocks the current transfer has written
    treq,             \* transfer requests (HEAD, GET) issued per video
    timer,            \* state of each session's heartbeat timer
    held,             \* the response node each session will send next
    due,              \* the time each pending timer fires
    now,              \* the clock, in seconds
    lifetime,         \* heartbeat_lifetime the server advertises, seconds
    lastok,           \* time of each session's last successful response
    lastdoc,          \* session node of each session's last response
    hblog,            \* the heartbeat requests sent, in order
    ended,            \* the video's download attempt has ended
    negfailed,        \* the video's session creation failed
    hbfailed,         \* a timer-driven heartbeat of the session failed
    ipc,              \* running, exiting (sys.exit called) or exited
    sources,          \* select_dmc_quality: the candidate ids, best first
    quality,          \* select_dmc_quality: the requested quality
    force_high_quality, \* cmdl_opts.force_high_quality
    template_params,  \* template_params[template_key], or unset
    selected,         \* the list select_dmc_quality returned
    selpc,            \* position of the caller of select_dmc_quality
    opt_threads,      \* cmdl_opts.threads
    dpc,              \* position in request_video / download_video
    ops,              \* network and file operations done, in order
    npc,              \* position of open_nama_websocket
    hpc,              \* position of the perform_nama_heartbeat task
    sock,             \* state of the websocket
    nsent,            \* frames sent on the websocket, in order
    nrecv,            \* frames received from the websocket, in order
    slept,            \* seconds the heartbeat task has slept
    broadcast_id,     \* the id of the live broadcast
    resolved,         \* number of calls of generate_stream
    matches,          \* get_playlist_from_m3u8: the (bandwidth, uri) pairs
    best_stream,      \* get_playlist_from_m3u8: the uri returned
    plpc              \* position of the caller of get_playlist_from_m3u8

planVars == <<i, parts>>
mtVars == <<mpc, wpc, wpos, wrem, wtmp, wdelta, written, honoured, progress,
            reported, rpc, finished, joinlist>>
ssVars == <<remote, file, file0, spc, resume_from, dl, current_byte_pos,
            file_condition, spos, fpos, restarts, netfail>>
hbVars == <<cur, cpc, tblocks, treq, timer, held, due, now, lifetime, lastok,
            lastdoc, hblog, ended, negfailed, hbfailed>>
intVars == <<ipc>>
selVars == <<sources, quality, force_high_quality, template_params, selected,
             selpc>>
dlVars == <<opt_threads, dpc, ops>>
namaVars == <<npc, hpc, sock, nsent, nrecv, slept, broadcast_id, resolved>>
plVars == <<matches, best_stream, plpc>>
extVars == <<selVars, dlVars, namaVars, plVars>>
vars == <<video_len, threads, outcome, planVars, mtVars, ssVars, hbVars,
          intVars, extVars>>

Min(a, b) == IF a <= b THEN a ELSE b

\* math.ceil(a / b) for a >= 0, b > 0
Ceil(a, b) == (a + b - 1) \div b

SeqsUpTo(S, n) == UNION {[1..k -> S] : k \in 0..n}

Workers == 0..(threads - 1)

\* ---------------------------------------------------------------------
\* Partition arithmetic of the dispatch loop
\* ---------------------------------------------------------------------
part == Ceil(video_len, threads)

PartStart(k) == part * k

PartEnd(k) == IF k = threads - 1 THEN video_len ELSE PartStart(k) + part

NoFileRec == [isfile |-> FALSE, data |-> <<>>]

MTIdle ==
    /\ mpc = "idle" /\ wpc = <<>> /\ wpos = <<>> /\ wrem = <<>>
    /\ wtmp = <<>> /\ wdelta = <<>> /\ written = <<>> /\ honoured = <<>>
    /\ progress = 0 /\ reported = 0 /\ rpc = "idle" /\ finished = FALSE
    /\ joinlist = <<>>

SSIdle ==
    /\ remote = <<>> /\ file = NoFileRec /\ file0 = NoFileRec
    /\ spc = "idle" /\ resume_from = 0 /\ dl = 0 /\ current_byte_pos = 0
    /\ file_condition = "wb" /\ spos = 0 /\ fpos = 0 /\ restarts = 0
    /\ netfail = FALSE

HBIdle ==
    /\ cur = 0 /\ cpc = "idle" /\ tblocks = 0 /\ treq = <<>>
    /\ timer = <<>> /\ held = <<>> /\ due = <<>> /\ now = 0
    /\ lifetime = 0 /\ lastok = <<>> /\ lastdoc = <<>> /\ hblog = <<>>
    /\ ended = <<>> /\ negfailed = <<>> /\ hbfailed = <<>>

IntIdle == ipc = "running"

\* An option or argument that was not given (None).
None == [set |-> FALSE, s |-> ""]

\* An option or argument given as the string x.
Str(x) == [set |-> TRUE, s |-> x]

\* select_dmc_quality has not returned anything.
NoResult ==
    [raised |-> "none", ret |-> <<>>, key |-> "unset", message |-> <<>>,
     warned |-> FALSE]

SelIdle ==
    /\ sources = <<>> /\ quality = None /\ template_params = "unset"
    /\ selected = NoResult /\ selpc = "idle"

DLIdle == opt_threads = None /\ dpc = "idle" /\ ops = <<>>

NamaIdle ==
    /\ npc = "idle" /\ hpc = "idle" /\ sock = "idle" /\ nsent = <<>>
    /\ nrecv = <<>> /\ slept = 0 /\ broadcast_id = "" /\ resolved = 0

PLIdle == matches = <<>> /\ best_stream = None /\ plpc = "idle"

InitPlan ==
    /\ video_len \in 0..MaxPlanLen
    /\ threads \in 1..MaxPlanThreads
    /\ i = 0
    /\ parts = <<>>
    /\ outcome = "none"
    /\ MTIdle
    /\ SSIdle
    /\ HBIdle
    /\ IntIdle
    /\ PLIdle
    /\ SelIdle
    /\ force_high_quality = FALSE
    /\ DLIdle
    /\ NamaIdle

\* One iteration of "for i in range(threads)" without the thread start.
PlanPart ==
    /\ i < threads
    /\ parts' = Append(parts, [start |-> PartStart(i), end |-> PartEnd(i)])
    /\ i' = i + 1
    /\ UNCHANGED <<video_len, threads, outcome, mtVars, ssVars,
                   hbVars, intVars, extVars>>

NextPlan == PlanPart

SpecPlan == InitPlan /\ [][NextPlan]_vars

\* ---------------------------------------------------------------------
\* The server's answer to "Range: bytes=s-e" on a resource of L bytes.
\* A satisfiable range is answered with the bytes s..min(e, L-1), both
\* ends included.  A range whose last position is before its first is
\* either rejected or ignored (the whole resource is sent); a range that
\* starts at or after L is rejected.
\* ---------------------------------------------------------------------
FailAnswer == [ok |-> FALSE, from |-> 0, len |-> 0, partial |-> FALSE]

RangeAnswers(s, e, L) ==
    IF s <= e /\ s < L
    THEN {[ok |-> TRUE, from |-> s, len |-> Min(e, L - 1) - s + 1,
           partial |-> TRUE]}
    ELSE IF s > e
    THEN {FailAnswer, [ok |-> TRUE, from |-> 0, len |-> L, partial |-> FALSE]}
    ELSE {FailAnswer}

\* ---------------------------------------------------------------------
\* Multi-threaded download
\* ---------------------------------------------------------------------
InitMT ==
    /\ video_len \in 0..MaxLen
    /\ threads \in 0..MaxThreads
    /\ i = 0
    /\ parts = <<>>
    /\ mpc = "head"
    /\ wpc = [w \in 0..(threads - 1) |-> "unstarted"]
    /\ wpos = [w \in 0..(threads - 1) |-> 0]
    /\ wrem = [w \in 0..(threads - 1) |-> 0]
    /\ wtmp = [w \in 0..(threads - 1) |-> 0]
    /\ wdelta = [w \in 0..(threads - 1) |-> 0]
    /\ written = [w \in 0..(threads - 1) |-> {}]
    /\ honoured = [w \in 0..(threads - 1) |-> FALSE]
    /\ progress = 0
    /\ reported = 0
    /\ rpc = "unstarted"
    /\ finished = FALSE
    /\ joinlist = <<>>
    /\ outcome = "none"
    /\ SSIdle
    /\ HBIdle
    /\ IntIdle
    /\ PLIdle
    /\ SelIdle
    /\ force_high_quality = FALSE
    /\ DLIdle
    /\ NamaIdle

\* session.head(...); raise_for_status()
MHead ==
    /\ mpc = "head"
    /\ \E ok \in BOOLEAN :
         IF ok THEN mpc' = "threads" /\ outcome' = outcome
         ELSE mpc' = "done" /\ outcome' = "HTTPError"
    /\ UNCHANGED <<video_len, threads, planVars, wpc, wpos, wrem, wtmp,
                   wdelta, written, honoured, progress, reported, rpc,
                   finished, joinlist, ssVars,
                   hbVars, intVars, extVars>>

\* threads <= 0 raises; otherwise progress = 0 and the file is padded out.
MThreads ==
    /\ mpc = "threads"
    /\ IF threads <= 0
       THEN mpc' = "done" /\ outcome' = "ArgumentException"
            /\ UNCHANGED progress
       ELSE mpc' = "dispatch" /\ outcome' = outcome /\ progress' = 0
    /\ UNCHANGED <<video_len, threads, planVars, wpc, wpos, wrem, wtmp,
                   wdelta, written, honoured, reported, rpc, finished,
                   joinlist, ssVars,
                   hbVars, intVars, extVars>>

\* One iteration of the dispatch loop: compute the range, start the thread.
MDispatch ==
    /\ mpc = "dispatch"
    /\ i < threads
    /\ parts' = Append(parts, [start |-> PartStart(i), end |-> PartEnd(i)])
    /\ wpc' = [wpc EXCEPT ![i] = "request"]
    /\ i' = i + 1
    /\ UNCHANGED <<video_len, threads, mpc, wpos, wrem, wtmp, wdelta,
                   written, honoured, progress, reported, rpc, finished,
                   joinlist, outcome, ssVars,
                   hbVars, intVars, extVars>>

\* progress_thread.start()
MStartProgress ==
    /\ mpc = "dispatch"
    /\ i = threads
    /\ rpc' = "check"
    /\ mpc' = "enumerate"
    /\ UNCHANGED <<video_len, threads, planVars, wpc, wpos, wrem, wtmp,
                   wdelta, written, honoured, progress, reported, finished,
                   joinlist, outcome, ssVars,
                   hbVars, intVars, extVars>>

WorkerEnded(w) == wpc[w] \in {"done", "failed"}

ReporterEnded == rpc \in {"done", "dead"}

WorkerThread(k) == [kind |-> "worker", id |-> k]

ProgressThread == [kind |-> "progress", id |-> 0]

ThreadEnded(t) ==
    IF t.kind = "progress" THEN ReporterEnded ELSE WorkerEnded(t.id)

RECURSIVE AliveFrom(_)
AliveFrom(k) ==
    IF k >= threads THEN <<>>
    ELSE (IF WorkerEnded(k) THEN <<>> ELSE <<WorkerThread(k)>>)
         \o AliveFrom(k + 1)

AliveOnlyProgress == IF ReporterEnded THEN <<>> ELSE <<ProgressThread>>

\* threading.enumerate() without the main thread: the threads still
\* alive, in the order they were started.
AliveThreads ==
    AliveFrom(0) \o (IF ReporterEnded THEN <<>> ELSE <<ProgressThread>>)

MEnumerate ==
    /\ mpc = "enumerate"
    /\ joinlist' = AliveThreads
    /\ mpc' = "join"
    /\ UNCHANGED <<video_len, threads, planVars, wpc, wpos, wrem, wtmp,
                   wdelta, written, honoured, progress, reported, rpc,
                   finished, outcome, ssVars,
                   hbVars, intVars, extVars>>

\* thread.join() returns once the thread has ended.
MJoin ==
    /\ mpc = "join"
    /\ joinlist # <<>>
    /\ ThreadEnded(Head(joinlist))
    /\ joinlist' = Tail(joinlist)
    /\ UNCHANGED <<video_len, threads, planVars, mpc, wpc, wpos, wrem, wtmp,
                   wdelta, written, honoured, progress, reported, rpc,
                   finished, outcome, ssVars,
                   hbVars, intVars, extVars>>

\* output("Finished downloading ..."); return
MFinish ==
    /\ mpc = "join"
    /\ joinlist = <<>>
    /\ outcome' = "finished"
    /\ mpc' = "done"
    /\ UNCHANGED <<video_len, threads, planVars, wpc, wpos, wrem, wtmp,
                   wdelta, written, honoured, progress, reported, rpc,
                   finished, joinlist, ssVars,
                   hbVars, intVars, extVars>>

\* session.get with "bytes={start}-{end}", raise_for_status, open, seek.
WRequest(w) ==
    /\ wpc[w] = "request"
    /\ \E a \in RangeAnswers(parts[w + 1].start, parts[w + 1].end, video_len)
               \cup {FailAnswer} :
         IF a.ok
         THEN /\ wpc' = [wpc EXCEPT ![w] = "iter"]
              /\ wpos' = [wpos EXCEPT ![w] = parts[w + 1].start]
              /\ wrem' = [wrem EXCEPT ![w] = a.len]
              /\ honoured' = [honoured EXCEPT ![w] = a.partial]
         ELSE /\ wpc' = [wpc EXCEPT ![w] = "failed"]
              /\ UNCHANGED <<wpos, wrem, honoured>>
    /\ UNCHANGED <<video_len, threads, planVars, mpc, wtmp, wdelta, written,
                   progress, reported, rpc, finished, joinlist, outcome,
                   ssVars,
                   hbVars, intVars, extVars>>

\* One turn of "for block in stream_iterator" up to the call of
\* update_multithread_progress(len(block)); when the stream is exhausted,
\* the call update_multithread_progress(-1).
WBlock(w) ==
    /\ wpc[w] = "iter"
    /\ IF wrem[w] > 0
       THEN LET n == Min(BLOCK_SIZE, wrem[w]) IN
            /\ wpos' = [wpos EXCEPT ![w] = wpos[w] + n]
            /\ written' = [written EXCEPT
                             ![w] = written[w] \cup (wpos[w]..(wpos[w] + n - 1))]
            /\ wrem' = [wrem EXCEPT ![w] = wrem[w] - n]
            /\ wdelta' = [wdelta EXCEPT ![w] = n]
       ELSE /\ wdelta' = [wdelta EXCEPT ![w] = -1]
            /\ UNCHANGED <<wpos, written, wrem>>
    /\ wpc' = [wpc EXCEPT ![w] = "update"]
    /\ UNCHANGED <<video_len, threads, planVars, mpc, wtmp, honoured,
                   progress, reported, rpc, finished, joinlist, outcome,
                   ssVars,
                   hbVars, intVars, extVars>>

\* The lock update_multithread_progress acquires is the threading.Lock()
\* it has just created: no other thread can hold it.
LockIsFree(w) == TRUE

\* lock = threading.Lock(); lock.acquire(); load of progress for +=
WUpdateLoad(w) ==
    /\ wpc[w] = "update"
    /\ LockIsFree(w)
    /\ wtmp' = [wtmp EXCEPT ![w] = progress]
    /\ wpc' = [wpc EXCEPT ![w] = "store"]
    /\ UNCHANGED <<video_len, threads, planVars, mpc, wpos, wrem, wdelta,
                   written, honoured, progress, reported, rpc, finished,
                   joinlist, outcome, ssVars,
                   hbVars, intVars, extVars>>

\* store of progress + bytes_len; lock.release()
WUpdateStore(w) ==
    /\ wpc[w] = "store"
    /\ progress' = wtmp[w] + wdelta[w]
    /\ reported' = reported + wdelta[w]
    /\ wpc' = [wpc EXCEPT ![w] = IF wdelta[w] = -1 THEN "done" ELSE "iter"]
    /\ UNCHANGED <<video_len, threads, planVars, mpc, wpos, wrem, wtmp,
                   wdelta, written, honoured, rpc, finished, joinlist,
                   outcome, ssVars,
                   hbVars, intVars, extVars>>

Worker(w) == WRequest(w) \/ WBlock(w) \/ WUpdateLoad(w) \/ WUpdateStore(w)

\* "if progress >= video_len: finished = True", then the two divisions by
\* video_len, which raise ZeroDivisionError for an empty video.
RCheck ==
    /\ rpc = "check"
    /\ finished' = (progress >= video_len)
    /\ rpc' = IF video_len = 0 THEN "dead" ELSE "print"
    /\ UNCHANGED <<video_len, threads, planVars, mpc, wpc, wpos, wrem, wtmp,
                   wdelta, written, honoured, progress, reported, joinlist,
                   outcome, ssVars,
                   hbVars, intVars, extVars>>

\* output(...) and the test of "while not finished"
RPrint ==
    /\ rpc = "print"
    /\ rpc' = IF finished THEN "done" ELSE "check"
    /\ UNCHANGED <<video_len, threads, planVars, mpc, wpc, wpos, wrem, wtmp,
                   wdelta, written, honoured, progress, reported, finished,
                   joinlist, outcome, ssVars,
                   hbVars, intVars, extVars>>

Reporter == RCheck \/ RPrint

Main == MHead \/ MThreads \/ MDispatch \/ MStartProgress \/ MEnumerate
           \/ MJoin \/ MFinish

NextMT ==
    \/ MHead
    \/ MThreads
    \/ MDispatch
    \/ MStartProgress
    \/ MEnumerate
    \/ MJoin
    \/ MFinish
    \/ \E w \in Workers : WRequest(w)
    \/ \E w \in Workers : WBlock(w)
    \/ \E w \in Workers : WUpdateLoad(w)
    \/ \E w \in Workers : WUpdateStore(w)
    \/ RCheck
    \/ RPrint

SpecMT == InitMT /\ [][NextMT]_vars

\* Every started thread keeps being scheduled, and every request is
\* answered (with data or with an error).
FairSpecMT ==
    /\ SpecMT
    /\ WF_vars(Main)
    /\ WF_vars(Reporter)
    /\ \A w \in 0..(MaxThreads - 1) : WF_vars(w \in Workers /\ Worker(w))

\* ---------------------------------------------------------------------
\* Single-stream download with resume
\* ---------------------------------------------------------------------
FileOf(d) == [isfile |-> TRUE, data |-> d]

\* The server's answer to "Range: bytes={from}-" on a resource of L bytes:
\* the bytes from..L-1.  A negative first position is no byte range: the
\* request is either rejected or the header ignored (the whole resource is
\* sent).  On an empty resource the request is rejected or answered empty.
OpenRangeAnswers(from, L) ==
    IF from >= 0 /\ from < L
    THEN {[ok |-> TRUE, from |-> from, len |-> L - from, partial |-> TRUE]}
    ELSE {FailAnswer, [ok |-> TRUE, from |-> 0, len |-> L, partial |-> FALSE]}

\* Length of the next block of iter_content(BLOCK_SIZE) of a stream that
\* is at offset pos of a resource of L bytes.
BlockLen(pos, L) == Min(BLOCK_SIZE, L - pos)

\* file.seek(pos); file.read()[:n]
ExistingDataUnseeked(data, pos, n) == SubSeq(data, 1, Min(Len(data), n))

ExistingData(data, pos, n) == SubSeq(data, pos + 1, Min(Len(data), pos + n))

\* open(filename, mode): "wb" creates or truncates, "ab" keeps the content.
OpenTruncating(f, mode) == FileOf(<<>>)

OpenFile(f, mode) == IF mode = "wb" THEN FileOf(<<>>) ELSE FileOf(f.data)

Max(a, b) == IF a >= b THEN a ELSE b

\* file.write(block) of a file opened with mode at position pos: a file
\* opened for appending writes at its end whatever its position is.
WriteBlock(data, mode, pos, block) ==
    IF mode = "ab" THEN data \o block
    ELSE [k \in 1..Max(Len(data), pos + Len(block)) |->
            IF k > pos /\ k <= pos + Len(block) THEN block[k - pos]
            ELSE IF k <= Len(data) THEN data[k] ELSE 0]

InitSS ==
    /\ remote \in SeqsUpTo(Bytes, MaxRemote)
    /\ file \in {NoFileRec} \cup {FileOf(d) : d \in SeqsUpTo(Bytes, MaxFile)}
    /\ file0 = file
    /\ video_len = 0
    /\ threads = 0
    /\ outcome = "none"
    /\ spc = "head"
    /\ resume_from = 0
    /\ dl = 0
    /\ current_byte_pos = 0
    /\ file_condition = "wb"
    /\ spos = 0
    /\ fpos = 0
    /\ restarts = 0
    /\ netfail = FALSE
    /\ i = 0
    /\ parts = <<>>
    /\ MTIdle
    /\ HBIdle
    /\ IntIdle
    /\ PLIdle
    /\ SelIdle
    /\ force_high_quality \in BOOLEAN
    /\ DLIdle
    /\ NamaIdle

\* session.head(...); raise_for_status(); video_len = content-length
SHead ==
    /\ spc = "head"
    /\ \E ok \in BOOLEAN :
         IF ok
         THEN /\ video_len' = Len(remote)
              /\ spc' = "isfile"
              /\ UNCHANGED <<outcome, netfail>>
         ELSE /\ spc' = "done"
              /\ outcome' = "HTTPError"
              /\ netfail' = TRUE
              /\ UNCHANGED video_len
    /\ UNCHANGED <<threads, planVars, mtVars, remote, file, file0,
                   resume_from, dl, current_byte_pos, file_condition, spos,
                   fpos, restarts,
                   hbVars, intVars, extVars>>

SizeCaseResumesEqual(size, len) ==
    IF size <= len THEN "shorter" ELSE "longer"

SizeCaseResumesLonger(size, len) ==
    IF size = len THEN "equal" ELSE "shorter"

\* "if current_byte_pos < video_len: ... elif current_byte_pos >
\* video_len: ... else: ..."
SizeCase(size, len) ==
    IF size < len THEN "shorter"
    ELSE IF size > len THEN "longer"
    ELSE "equal"

\* "if os.path.isfile(filename): ... else: ..." before the request
SCheckFile ==
    /\ spc = "isfile"
    /\ IF file.isfile
       THEN /\ current_byte_pos' = Len(file.data)
            /\ IF SizeCase(Len(file.data), video_len) = "shorter"
               THEN /\ file_condition' = "ab"
                    /\ resume_from' = Len(file.data) - BLOCK_SIZE
                    /\ dl' = Len(file.data) - BLOCK_SIZE
                    /\ spc' = "get"
                    /\ UNCHANGED outcome
               ELSE IF SizeCase(Len(file.data), video_len) = "longer"
               THEN /\ spc' = "done"
                    /\ outcome' = "FormatNotAvailableException"
                    /\ UNCHANGED <<file_condition, resume_from, dl>>
               ELSE /\ spc' = "done"
                    /\ outcome' = "exists"
                    /\ UNCHANGED <<file_condition, resume_from, dl>>
       ELSE /\ file_condition' = "wb"
            /\ resume_from' = 0
            /\ dl' = 0
            /\ spc' = "get"
            /\ UNCHANGED <<current_byte_pos, outcome>>
    /\ UNCHANGED <<video_len, threads, planVars, mtVars, remote, file, file0,
                   spos, fpos, restarts, netfail,
                   hbVars, intVars, extVars>>

\* session.get(url, headers=resume_header, stream=True); raise_for_status()
SGet ==
    /\ spc = "get"
    /\ \E a \in OpenRangeAnswers(resume_from, video_len) \cup {FailAnswer} :
         IF a.ok
         THEN /\ spos' = a.from
              /\ spc' = "compare"
              /\ UNCHANGED <<outcome, netfail>>
         ELSE /\ spc' = "done"
              /\ outcome' = "HTTPError"
              /\ netfail' = TRUE
              /\ UNCHANGED spos
    /\ UNCHANGED <<video_len, threads, planVars, mtVars, remote, file, file0,
                   resume_from, dl, current_byte_pos, file_condition, fpos,
                   restarts,
                   hbVars, intVars, extVars>>

NotRemoved(f) == f

\* os.remove(filename)
Removed(f) == NoFileRec

\* The second "if os.path.isfile(filename):" block: fetch one block and
\* compare it with the end of the file; os.remove and the recursive call
\* when the block is not shorter than the file or differs.
SCompare ==
    /\ spc = "compare"
    /\ IF file.isfile
       THEN LET n == BlockLen(spos, video_len)
                new_data == SubSeq(remote, spos + 1, spos + n)
            IN
            /\ spos' = spos + n
            /\ IF current_byte_pos - n <= 0
               THEN /\ file' = Removed(file)
                    /\ restarts' = restarts + 1
                    /\ spc' = "head"
                    /\ UNCHANGED dl
               ELSE IF new_data = ExistingData(file.data,
                                        current_byte_pos - BLOCK_SIZE, n)
               THEN /\ dl' = dl + n
                    /\ spc' = "open"
                    /\ UNCHANGED <<file, restarts>>
               ELSE /\ file' = Removed(file)
                    /\ restarts' = restarts + 1
                    /\ spc' = "head"
                    /\ UNCHANGED dl
       ELSE /\ spc' = "open"
            /\ UNCHANGED <<spos, file, restarts, dl>>
    /\ UNCHANGED <<video_len, threads, outcome, planVars, mtVars, remote,
                   file0, resume_from, current_byte_pos, file_condition, fpos,
                   netfail,
                   hbVars, intVars, extVars>>

\* with open(filename, file_condition) as file: file.seek(dl)
SOpen ==
    /\ spc = "open"
    /\ file' = OpenFile(file, file_condition)
    /\ fpos' = dl
    /\ spc' = "loop"
    /\ UNCHANGED <<video_len, threads, outcome, planVars, mtVars, remote,
                   file0, resume_from, dl, current_byte_pos, file_condition,
                   spos, restarts, netfail,
                   hbVars, intVars, extVars>>

\* One turn of "for block in stream_iterator": dl += len(block); write
SBlock ==
    /\ spc = "loop"
    /\ spos < video_len
    /\ LET n == BlockLen(spos, video_len)
           block == SubSeq(remote, spos + 1, spos + n)
       IN
       /\ dl' = dl + n
       /\ file' = FileOf(WriteBlock(file.data, file_condition, fpos, block))
       /\ fpos' = fpos + n
       /\ spos' = spos + n
    /\ UNCHANGED <<video_len, threads, outcome, planVars, mtVars, remote,
                   file0, spc, resume_from, current_byte_pos, file_condition,
                   restarts, netfail,
                   hbVars, intVars, extVars>>

\* The stream is exhausted: output("Finished downloading ...")
SFinish ==
    /\ spc = "loop"
    /\ spos >= video_len
    /\ outcome' = "finished"
    /\ spc' = "done"
    /\ UNCHANGED <<video_len, threads, planVars, mtVars, remote, file, file0,
                   resume_from, dl, current_byte_pos, file_condition, spos,
                   fpos, restarts, netfail,
                   hbVars, intVars, extVars>>

NextSS ==
    \/ SHead
    \/ SCheckFile
    \/ SGet
    \/ SCompare
    \/ SOpen
    \/ SBlock
    \/ SFinish

SpecSS == InitSS /\ [][NextSS]_vars

\* ---------------------------------------------------------------------
\* The user's interrupt during a multi-threaded download (__main__)
\* ---------------------------------------------------------------------
InitInt ==
    /\ InitMT
    /\ threads > 0

\* The main thread runs download_video until the interrupt.
IMain == ipc = "running" /\ Main

\* Worker threads run while the process exists.
IWorker(w) == ipc # "exited" /\ Worker(w)

\* The progress thread runs while the process exists.
IReporter == ipc # "exited" /\ Reporter

\* KeyboardInterrupt is raised in the main thread, wherever it stands in
\* download_video; the handler's only statement is sys.exit(1).
Interrupt ==
    /\ ipc = "running"
    /\ mpc # "done"
    /\ ipc' = "exiting"
    /\ UNCHANGED <<video_len, threads, outcome, planVars, mtVars, ssVars,
                   hbVars, extVars>>

\* The interpreter waits for the threads that are not daemons (the
\* progress thread), then the process ends and its daemon threads (the
\* workers) end with it.
Exit ==
    /\ ipc = "exiting"
    /\ rpc \in {"unstarted", "done", "dead"}
    /\ ipc' = "exited"
    /\ UNCHANGED <<video_len, threads, outcome, planVars, mtVars, ssVars,
                   hbVars, extVars>>

NextInt ==
    \/ IMain
    \/ \E w \in Workers : IWorker(w)
    \/ IReporter
    \/ Interrupt
    \/ Exit

SpecInt == InitInt /\ [][NextInt]_vars

\* ---------------------------------------------------------------------
\* Session creation and heartbeat (perform_api_request, perform_heartbeat)
\* with the caller request_video, for the videos of one run
\* ---------------------------------------------------------------------
MaxVideos == 2
MaxBlocks == 2
MaxRenewals == 3
MaxTime == 30

DMC_HEARTBEAT_INTERVAL_S == 15

\* heartbeat_lifetime values the server may advertise, in seconds.
Lifetimes == {10, 15, 120}

Videos == 1..MaxVideos

\* The <session> element of a response, as a parsed node.
SessionNodeOf(v, k) == [tag |-> "session", sid |-> v, ver |-> k]

NoNode == [tag |-> "none", sid |-> 0, ver |-> 0]

\* node.toxml()
ToXml(n) == <<n.tag, n.sid, n.ver>>

\* xml.dom.minidom.parseString(text).getElementsByTagName("session")[0]
SessionNode(text) ==
    [tag |-> text.session[1], sid |-> text.session[2], ver |-> text.session[3]]

\* The server's answers to the session creation POST: a non-2xx status, a
\* document without content_uri, or the granted session.
CreationAnswers(v) ==
    {[ok |-> FALSE, has_uri |-> FALSE, session |-> ToXml(SessionNodeOf(v, 0))],
     [ok |-> TRUE, has_uri |-> FALSE, session |-> ToXml(SessionNodeOf(v, 0))],
     [ok |-> TRUE, has_uri |-> TRUE, session |-> ToXml(SessionNodeOf(v, 0))]}

\* The server's answers to a heartbeat: an error status, or the session
\* document with its server-side fields updated.
HeartbeatAnswers(v) ==
    {[ok |-> FALSE, has_uri |-> FALSE,
      session |-> ToXml(SessionNodeOf(v, lastdoc[v].ver + 1))],
     [ok |-> TRUE, has_uri |-> TRUE,
      session |-> ToXml(SessionNodeOf(v, lastdoc[v].ver + 1))]}

NegotiationUnchecked(a) == a.ok

\* raise_for_status() and getElementsByTagName("content_uri")[0] both pass
NegotiationOk(a) == a.ok /\ a.has_uri

KeepsOldDoc(old, text) == old

\* "response = ...getElementsByTagName("session")[0]": the node the next
\* perform_heartbeat is given
NextHeartbeatDoc(old, text) == SessionNode(text)

StillPending == "pending"

\* A raise in the timer thread ends it: no new Timer is created.
AfterHeartbeatFailure == "dead"

\* A heartbeat request as sent: session.post(heartbeat_url, response.toxml())
Sent(v, who) ==
    [video |-> v, body |-> ToXml(held[v]), by |-> who, at |-> now,
     since |-> now - lastok[v], after_end |-> ended[v],
     prev |-> lastdoc[v]]

InitHB ==
    /\ cur = 1
    /\ cpc = "post"
    /\ tblocks = 0
    /\ treq = [v \in Videos |-> 0]
    /\ timer = [v \in Videos |-> "none"]
    /\ held = [v \in Videos |-> NoNode]
    /\ due = [v \in Videos |-> 0]
    /\ now = 0
    /\ lifetime \in Lifetimes
    /\ lastok = [v \in Videos |-> 0]
    /\ lastdoc = [v \in Videos |-> NoNode]
    /\ hblog = <<>>
    /\ ended = [v \in Videos |-> FALSE]
    /\ negfailed = [v \in Videos |-> FALSE]
    /\ hbfailed = [v \in Videos |-> FALSE]
    /\ video_len = 0
    /\ threads = 0
    /\ outcome = "none"
    /\ i = 0
    /\ parts = <<>>
    /\ MTIdle
    /\ SSIdle
    /\ IntIdle
    /\ PLIdle
    /\ SelIdle
    /\ force_high_quality = FALSE
    /\ DLIdle
    /\ NamaIdle

\* The creation POST of perform_api_request up to the call of
\* perform_heartbeat, whose first statement sends the first heartbeat.
CPost ==
    /\ cpc = "post"
    /\ Len(hblog) < MaxRenewals
    /\ \E a \in CreationAnswers(cur) :
         IF NegotiationOk(a)
         THEN /\ held' = [held EXCEPT ![cur] = SessionNode(a)]
              /\ lastdoc' = [lastdoc EXCEPT ![cur] = SessionNode(a)]
              /\ lastok' = [lastok EXCEPT ![cur] = now]
              /\ negfailed' = [negfailed EXCEPT
                                 ![cur] = ~(a.ok /\ a.has_uri)]
              /\ hblog' = Append(hblog,
                     [Sent(cur, "caller") EXCEPT
                        !.body = ToXml(SessionNode(a)),
                        !.since = 0,
                        !.prev = SessionNode(a)])
              /\ cpc' = "heartbeat"
              /\ UNCHANGED <<outcome, ended>>
         ELSE /\ negfailed' = [negfailed EXCEPT ![cur] = TRUE]
              /\ ended' = [ended EXCEPT ![cur] = TRUE]
              /\ outcome' = IF a.ok THEN "IndexError" ELSE "HTTPError"
              /\ cpc' = "stopped"
              /\ UNCHANGED <<held, lastdoc, lastok, hblog>>
    /\ UNCHANGED <<video_len, threads, planVars, mtVars, ssVars, intVars, extVars,
                   cur, tblocks, treq, timer, due, now, lifetime, hbfailed>>

\* The answer to the heartbeat perform_api_request is waiting for:
\* raise_for_status, the new response node, the Timer started.
CHeartbeatDone ==
    /\ cpc = "heartbeat"
    /\ \E a \in HeartbeatAnswers(cur) :
         IF a.ok
         THEN /\ held' = [held EXCEPT ![cur] = NextHeartbeatDoc(held[cur], a)]
              /\ lastdoc' = [lastdoc EXCEPT ![cur] = SessionNode(a)]
              /\ lastok' = [lastok EXCEPT ![cur] = now]
              /\ timer' = [timer EXCEPT ![cur] = "pending"]
              /\ due' = [due EXCEPT ![cur] = now + DMC_HEARTBEAT_INTERVAL_S]
              /\ cpc' = "head"
              /\ UNCHANGED <<outcome, ended>>
         ELSE /\ ended' = [ended EXCEPT ![cur] = TRUE]
              /\ outcome' = "HTTPError"
              /\ cpc' = "stopped"
              /\ UNCHANGED <<held, lastdoc, lastok, timer, due>>
    /\ UNCHANGED <<video_len, threads, planVars, mtVars, ssVars, intVars, extVars,
                   cur, tblocks, treq, now, lifetime, hblog, negfailed,
                   hbfailed>>

\* request_video goes on to the next video of the run, or the run ends.
NextVideo ==
    IF cur < MaxVideos
    THEN cur' = cur + 1 /\ cpc' = "post" /\ tblocks' = 0
    ELSE cpc' = "stopped" /\ UNCHANGED <<cur, tblocks>>

\* download_video: the HEAD request and the check of an existing file.
\* An HTTP error ends the run; a file longer than the video raises the
\* error the loop over the videos catches; a file of the video's length
\* makes download_video return at once.
CHead ==
    /\ cpc = "head"
    /\ treq' = [treq EXCEPT ![cur] = treq[cur] + 1]
    /\ \E r \in {"ok", "HTTPError", "FormatNotAvailableException",
                 "complete"} :
         IF r = "ok"
         THEN cpc' = "get" /\ UNCHANGED <<cur, tblocks, ended, outcome>>
         ELSE IF r = "HTTPError"
         THEN /\ cpc' = "stopped"
              /\ ended' = [ended EXCEPT ![cur] = TRUE]
              /\ outcome' = "HTTPError"
              /\ UNCHANGED <<cur, tblocks>>
         ELSE /\ NextVideo
              /\ ended' = [ended EXCEPT ![cur] = TRUE]
              /\ UNCHANGED outcome
    /\ UNCHANGED <<video_len, threads, planVars, mtVars, ssVars, intVars, extVars,
                   timer, held, due, now, lifetime, lastok, lastdoc, hblog,
                   negfailed, hbfailed>>

\* download_video: the ranged GET.
CGet ==
    /\ cpc = "get"
    /\ treq' = [treq EXCEPT ![cur] = treq[cur] + 1]
    /\ \E ok \in BOOLEAN :
         IF ok
         THEN cpc' = "blocks" /\ UNCHANGED <<ended, outcome>>
         ELSE /\ cpc' = "stopped"
              /\ ended' = [ended EXCEPT ![cur] = TRUE]
              /\ outcome' = "HTTPError"
    /\ UNCHANGED <<video_len, threads, planVars, mtVars, ssVars, intVars, extVars,
                   cur, tblocks, timer, held, due, now, lifetime, lastok,
                   lastdoc, hblog, negfailed, hbfailed>>

\* download_video: one block written.
CBlock ==
    /\ cpc = "blocks"
    /\ tblocks < MaxBlocks
    /\ tblocks' = tblocks + 1
    /\ UNCHANGED <<video_len, threads, outcome, planVars, mtVars, ssVars,
                   intVars, extVars, cur, cpc, treq, timer, held, due, now, lifetime,
                   lastok, lastdoc, hblog, ended, negfailed, hbfailed>>

\* download_video returns; request_video returns.
CFinish ==
    /\ cpc = "blocks"
    /\ tblocks > 0
    /\ ended' = [ended EXCEPT ![cur] = TRUE]
    /\ NextVideo
    /\ UNCHANGED <<video_len, threads, outcome, planVars, mtVars, ssVars,
                   intVars, extVars, treq, timer, held, due, now, lifetime, lastok,
                   lastdoc, hblog, negfailed, hbfailed>>

\* The Timer of session v fires: perform_heartbeat sends its request from
\* the timer thread.  Daemon timers fire only while the process runs.
TFire(v) ==
    /\ timer[v] = "pending"
    /\ now >= due[v]
    /\ cpc # "stopped"
    /\ Len(hblog) < MaxRenewals
    /\ hblog' = Append(hblog, Sent(v, "timer"))
    /\ timer' = [timer EXCEPT ![v] = "running"]
    /\ UNCHANGED <<video_len, threads, outcome, planVars, mtVars, ssVars,
                   intVars, extVars, cur, cpc, tblocks, treq, held, due, now,
                   lifetime, lastok, lastdoc, ended, negfailed, hbfailed>>

\* The answer to a heartbeat sent from the timer thread.
TAnswer(v) ==
    /\ timer[v] = "running"
    /\ cpc # "stopped"
    /\ \E a \in HeartbeatAnswers(v) :
         IF a.ok
         THEN /\ held' = [held EXCEPT ![v] = NextHeartbeatDoc(held[v], a)]
              /\ lastdoc' = [lastdoc EXCEPT ![v] = SessionNode(a)]
              /\ lastok' = [lastok EXCEPT ![v] = now]
              /\ timer' = [timer EXCEPT ![v] = "pending"]
              /\ due' = [due EXCEPT ![v] = now + DMC_HEARTBEAT_INTERVAL_S]
              /\ UNCHANGED hbfailed
         ELSE /\ timer' = [timer EXCEPT ![v] = AfterHeartbeatFailure]
              /\ hbfailed' = [hbfailed EXCEPT ![v] = TRUE]
              /\ UNCHANGED <<held, lastdoc, lastok, due>>
    /\ UNCHANGED <<video_len, threads, outcome, planVars, mtVars, ssVars,
                   intVars, extVars, cur, cpc, tblocks, treq, now, lifetime, hblog,
                   ended, negfailed>>

\* Time is counted in heartbeat intervals.
TickS == DMC_HEARTBEAT_INTERVAL_S

\* Time passes; a pending timer fires when it is due.
Tick ==
    /\ cpc # "stopped"
    /\ now < MaxTime
    /\ \A v \in Videos : timer[v] = "pending" => now < due[v]
    /\ now' = now + TickS
    /\ UNCHANGED <<video_len, threads, outcome, planVars, mtVars, ssVars,
                   intVars, extVars, cur, cpc, tblocks, treq, timer, held, due,
                   lifetime, lastok, lastdoc, hblog, ended, negfailed,
                   hbfailed>>

NextHB ==
    \/ CPost
    \/ CHeartbeatDone
    \/ CHead
    \/ CGet
    \/ CBlock
    \/ CFinish
    \/ \E v \in Videos : TFire(v)
    \/ \E v \in Videos : TAnswer(v)
    \/ Tick

SpecHB == InitHB /\ [][NextHB]_vars

\* ---------------------------------------------------------------------
\* Quality selection (select_dmc_quality)
\* ---------------------------------------------------------------------
MaxSources == 3

\* Ids a source list may hold, and values --video-quality may be given.
Ids == {"high", "HIGH", "mid", "Mid", "low"}

Words == Ids \cup {"", "highest", "Highest", "lowest", "LOWEST", "MID", "best"}

\* str.lower()
Lower(w) ==
    CASE w = "HIGH" -> "high"
      [] w = "Mid" -> "mid"
      [] w = "MID" -> "mid"
      [] w = "Highest" -> "highest"
      [] w = "LOWEST" -> "lowest"
      [] OTHER -> w

\* The truth value of an optional string: None and "" are false.
Truthy(q) == q.set /\ q.s # ""

TakesFirstUnforced(q, force) == ~Truthy(q) \/ Lower(q.s) = "highest"

\* "if not quality or cmdl_opts.force_high_quality or
\*      quality.lower() == "highest":"
TakesFirst(q, force) == ~Truthy(q) \/ force \/ Lower(q.s) = "highest"

\* "if quality.lower() == "lowest":"
TakesLast(q) == Lower(q.s) = "lowest"

ButLastOf(srcs) == srcs[IF Len(srcs) > 1 THEN Len(srcs) - 1 ELSE 1]

\* sources[:1][0]
FirstOf(srcs) == srcs[1]

\* sources[-1:][0]
LastOf(srcs) == srcs[Len(srcs)]

SameIdExact(a, b) == a = b

\* "q.lower() == quality.lower()"
SameId(a, b) == Lower(a) = Lower(b)

\* list(filter(lambda q: q.lower() == quality.lower(), sources))
Filtered(srcs, q) == SelectSeq(srcs, LAMBDA c : SameId(c, q.s))

\* The result of a call that stored and returned the source c.
Chosen(c, q, force) ==
    [raised |-> "none", ret |-> <<c>>, key |-> c, message |-> <<>>,
     warned |-> (Truthy(q) /\ force)]

\* The result of a call that raised: nothing stored, nothing returned.
Raised(e, msg, q, force) ==
    [raised |-> e, ret |-> <<>>, key |-> "unset", message |-> msg,
     warned |-> (Truthy(q) /\ force)]

select_dmc_quality(srcs, q, force) ==
    IF TakesFirst(q, force)
    THEN IF srcs = <<>> THEN Raised("IndexError", <<>>, q, force)
         ELSE Chosen(FirstOf(srcs), q, force)
    ELSE IF TakesLast(q)
    THEN IF srcs = <<>> THEN Raised("IndexError", <<>>, q, force)
         ELSE Chosen(LastOf(srcs), q, force)
    ELSE IF Filtered(srcs, q) = <<>>
    THEN Raised("FormatNotAvailableException", <<q.s, srcs>>, q, force)
    ELSE Chosen(FirstOf(Filtered(srcs, q)), q, force)

InitSel ==
    /\ sources \in SeqsUpTo(Ids, MaxSources)
    /\ quality \in {None} \cup {Str(w) : w \in Words}
    /\ force_high_quality \in BOOLEAN
    /\ template_params = "unset"
    /\ selected = NoResult
    /\ selpc = "call"
    /\ video_len = 0
    /\ threads = 0
    /\ outcome = "none"
    /\ i = 0
    /\ parts = <<>>
    /\ MTIdle
    /\ SSIdle
    /\ HBIdle
    /\ IntIdle
    /\ PLIdle
    /\ DLIdle
    /\ NamaIdle

\* One call select_dmc_quality(template_params, key, sources, quality).
Select ==
    /\ selpc = "call"
    /\ LET r == select_dmc_quality(sources, quality, force_high_quality)
       IN /\ selected' = r
          /\ template_params' = r.key
          /\ outcome' = r.raised
          /\ selpc' = IF r.raised = "none" THEN "returned" ELSE "raised"
    /\ UNCHANGED <<video_len, threads, planVars, mtVars, ssVars, hbVars,
                   intVars, plVars, sources, quality, force_high_quality, dlVars,
                   namaVars>>

NextSel == Select

SpecSel == InitSel /\ [][NextSel]_vars

\* ---------------------------------------------------------------------
\* request_video from the quality selection to the start of the transfer:
\* which requests are sent and which files are opened, in which order
\* ---------------------------------------------------------------------

\* Values --threads may be given on the command line.
ThreadArgs == {"", "-1", "0", "1", "2", "x"}

IsNumber(a) == a \in {"-1", "0", "1", "2"}

\* int(cmdl_opts.threads)
IntOf(a) ==
    CASE a = "-1" -> -1
      [] a = "0" -> 0
      [] a = "1" -> 1
      [] a = "2" -> 2

OnlyNegative(n) == n < 0

\* "if threads <= 0:"
BadThreadCount(n) == n <= 0

\* n bytes of value b
Fill(b, n) == [k \in 1..n |-> b]

\* open(filename, "wb"); file.truncate(video_len); file.close()
Padded(f, n) == FileOf(Fill(0, n))

\* Source lists and requests of the runs of this part.
DLSources == {<<"high", "mid", "low">>}

DLQualities == {None, Str("mid"), Str("best"), Str("lowest")}

InitDL ==
    /\ sources \in DLSources
    /\ quality \in DLQualities
    /\ force_high_quality \in BOOLEAN
    /\ template_params = "unset"
    /\ selected = NoResult
    /\ selpc = "call"
    /\ opt_threads \in {None} \cup {Str(a) : a \in ThreadArgs}
    /\ dpc = "select"
    /\ ops = <<>>
    /\ remote \in {Fill(0, n) : n \in 0..MaxRemote}
    /\ file \in {NoFileRec} \cup {FileOf(Fill(1, n)) : n \in 0..MaxFile}
    /\ file0 = file
    /\ video_len = 0
    /\ threads = 0
    /\ outcome = "none"
    /\ spc = "idle"
    /\ resume_from = 0
    /\ dl = 0
    /\ current_byte_pos = 0
    /\ file_condition = "wb"
    /\ spos = 0
    /\ fpos = 0
    /\ restarts = 0
    /\ netfail = FALSE
    /\ i = 0
    /\ parts = <<>>
    /\ MTIdle
    /\ HBIdle
    /\ IntIdle
    /\ PLIdle
    /\ NamaIdle

\* perform_api_request: select_dmc_quality, then determine_quality and
\* the test of the force flag against the quality the page offers.
DSelect ==
    /\ dpc = "select"
    /\ LET r == select_dmc_quality(sources, quality, force_high_quality)
       IN /\ selected' = r
          /\ template_params' = r.key
          /\ IF r.raised # "none"
             THEN /\ selpc' = "raised"
                  /\ outcome' = r.raised
                  /\ dpc' = "stopped"
             ELSE /\ selpc' = "returned"
                  /\ \E auto \in BOOLEAN :
                       IF ~auto /\ force_high_quality
                       THEN /\ outcome' = "FormatNotAvailableException"
                            /\ dpc' = "stopped"
                       ELSE /\ outcome' = outcome
                            /\ dpc' = "post"
    /\ UNCHANGED <<video_len, threads, planVars, mtVars, ssVars, hbVars,
                   intVars, plVars, sources, quality, force_high_quality,
                   opt_threads, ops, namaVars>>

\* perform_api_request: the session creation POST.
DPost ==
    /\ dpc = "post"
    /\ ops' = Append(ops, "POST")
    /\ \E ok \in BOOLEAN :
         IF ok THEN dpc' = "heartbeat" /\ outcome' = outcome
         ELSE dpc' = "stopped" /\ outcome' = "HTTPError"
    /\ UNCHANGED <<video_len, threads, planVars, mtVars, ssVars, hbVars,
                   intVars, plVars, selVars, opt_threads, namaVars>>

\* perform_api_request: perform_heartbeat(session, heartbeat_url, response)
DHeartbeat ==
    /\ dpc = "heartbeat"
    /\ ops' = Append(ops, "HEARTBEAT")
    /\ \E ok \in BOOLEAN :
         IF ok THEN dpc' = "head" /\ outcome' = outcome
         ELSE dpc' = "stopped" /\ outcome' = "HTTPError"
    /\ UNCHANGED <<video_len, threads, planVars, mtVars, ssVars, hbVars,
                   intVars, plVars, selVars, opt_threads, namaVars>>

\* download_video: session.head(...); raise_for_status(); video_len
DHead ==
    /\ dpc = "head"
    /\ ops' = Append(ops, "HEAD")
    /\ \E ok \in BOOLEAN :
         IF ok
         THEN /\ dpc' = "branch"
              /\ video_len' = Len(remote)
              /\ outcome' = outcome
         ELSE /\ dpc' = "stopped"
              /\ outcome' = "HTTPError"
              /\ UNCHANGED video_len
    /\ UNCHANGED <<threads, planVars, mtVars, ssVars, hbVars, intVars, plVars,
                   selVars, opt_threads, namaVars>>

\* "if cmdl_opts.threads:"
DBranch ==
    /\ dpc = "branch"
    /\ dpc' = IF Truthy(opt_threads) THEN "threads" ELSE "isfile"
    /\ UNCHANGED <<video_len, threads, outcome, planVars, mtVars, ssVars,
                   hbVars, intVars, plVars, selVars, opt_threads, ops, namaVars>>

\* "threads = int(cmdl_opts.threads)" and "if threads <= 0: raise"
DThreads ==
    /\ dpc = "threads"
    /\ IF ~IsNumber(opt_threads.s)
       THEN /\ outcome' = "ValueError"
            /\ dpc' = "stopped"
            /\ UNCHANGED threads
       ELSE /\ threads' = IntOf(opt_threads.s)
            /\ IF BadThreadCount(IntOf(opt_threads.s))
               THEN outcome' = "ArgumentException" /\ dpc' = "stopped"
               ELSE outcome' = outcome /\ dpc' = "pad"
    /\ UNCHANGED <<video_len, planVars, mtVars, ssVars, hbVars, intVars, plVars,
                   selVars, opt_threads, ops, namaVars>>

\* The file is created anew and padded to the full length; the dispatch
\* loop follows.
DPad ==
    /\ dpc = "pad"
    /\ ops' = Append(ops, "OPEN")
    /\ file' = Padded(file, video_len)
    /\ dpc' = "dispatch"
    /\ UNCHANGED <<video_len, threads, outcome, planVars, mtVars, remote,
                   file0, spc, resume_from, dl, current_byte_pos,
                   file_condition, spos, fpos, restarts, netfail, hbVars,
                   intVars, plVars, selVars, opt_threads, namaVars>>

\* The single-stream path: "if os.path.isfile(filename): ... else: ...";
\* the ranged GET follows unless the file is as long as the video or
\* longer.
DCheckFile ==
    /\ dpc = "isfile"
    /\ IF file.isfile /\ SizeCase(Len(file.data), video_len) = "longer"
       THEN dpc' = "stopped" /\ outcome' = "FormatNotAvailableException"
       ELSE IF file.isfile /\ SizeCase(Len(file.data), video_len) = "equal"
       THEN dpc' = "returned" /\ outcome' = outcome
       ELSE dpc' = "get" /\ outcome' = outcome
    /\ UNCHANGED <<video_len, threads, planVars, mtVars, ssVars, hbVars,
                   intVars, plVars, selVars, opt_threads, ops, namaVars>>

NextDL ==
    \/ DSelect
    \/ DPost
    \/ DHeartbeat
    \/ DHead
    \/ DBranch
    \/ DThreads
    \/ DPad
    \/ DCheckFile

SpecDL == InitDL /\ [][NextDL]_vars

\* ---------------------------------------------------------------------
\* The live-stream websocket (open_nama_websocket) and its heartbeat
\* task (perform_nama_heartbeat)
\* ---------------------------------------------------------------------
MaxWatching == 3
MaxInbound == 2

NAMA_HEARTBEAT_INTERVAL_S == 15

BroadcastIds == {"lv1", "lv2"}

\* What the server may send: a ping, the two watch commands the client
\* knows, a frame of another type, a frame without a type.
ServerFrames ==
    {"ping", "statistics", "currentstream", "othercommand", "other",
     "notype"}

\* A frame as it is sent; seen is the number of frames read before it.
Frame(t, c, bid) ==
    [type |-> t, command |-> c, id |-> bid, at |-> slept,
     seen |-> Len(nrecv)]

TemplatePermitFrame(bid) == Frame("watch", "getpermit", "-1")

\* NAMA_PERMIT_FRAME with requirement.broadcastId = broadcast_id
PermitFrame(bid) == Frame("watch", "getpermit", bid)

\* NAMA_WATCHING_FRAME with params[0] = broadcast_id
WatchingFrame(bid) == Frame("watch", "watching", bid)

PongFrame == Frame("pong", "", "")

AfterFirstFrame(rcv) == rcv # <<>>

\* "while True:" of perform_nama_heartbeat: the send of the watching
\* frame waits for nothing that was received.
HeartbeatMaySend(rcv) == TRUE

\* open_nama_websocket has returned or raised: run_until_complete is
\* over and the event loop runs no task any more.
MainOver == npc \in {"closed", "raised"}

Watchings == {k \in 1..Len(nsent) : nsent[k].command = "watching"}

InitNama ==
    /\ broadcast_id \in BroadcastIds
    /\ npc = "connect"
    /\ hpc = "none"
    /\ sock = "connecting"
    /\ nsent = <<>>
    /\ nrecv = <<>>
    /\ slept = 0
    /\ resolved = 0
    /\ video_len = 0
    /\ threads = 0
    /\ outcome = "none"
    /\ i = 0
    /\ parts = <<>>
    /\ MTIdle
    /\ SSIdle
    /\ HBIdle
    /\ IntIdle
    /\ PLIdle
    /\ SelIdle
    /\ force_high_quality = FALSE
    /\ DLIdle

\* "async with websockets.connect(uri) as websocket:"
NConnect ==
    /\ npc = "connect"
    /\ \E ok \in BOOLEAN :
         IF ok
         THEN sock' = "open" /\ npc' = "permit" /\ outcome' = outcome
         ELSE sock' = "closed" /\ npc' = "raised"
              /\ outcome' = "ConnectionError"
    /\ UNCHANGED <<video_len, threads, planVars, mtVars, ssVars, hbVars,
                   intVars, plVars, selVars, dlVars, hpc, nsent, nrecv, slept,
                   broadcast_id, resolved>>

\* The frames are filled in and the permit frame is sent; a closed
\* connection raises outside the try block.
NPermit ==
    /\ npc = "permit"
    /\ IF sock = "open"
       THEN /\ nsent' = Append(nsent, PermitFrame(broadcast_id))
            /\ npc' = "task"
            /\ UNCHANGED <<outcome, sock>>
       ELSE /\ npc' = "raised"
            /\ outcome' = "ConnectionClosed"
            /\ UNCHANGED <<nsent, sock>>
    /\ UNCHANGED <<video_len, threads, planVars, mtVars, ssVars, hbVars,
                   intVars, plVars, selVars, dlVars, hpc, nrecv, slept,
                   broadcast_id, resolved>>

\* event_loop.create_task(perform_nama_heartbeat(...)), up to the first
\* "await websocket.recv()"
NCreateTask ==
    /\ npc = "task"
    /\ hpc' = "send"
    /\ npc' = "recv"
    /\ UNCHANGED <<video_len, threads, outcome, planVars, mtVars, ssVars,
                   hbVars, intVars, plVars, selVars, dlVars, sock, nsent, nrecv,
                   slept, broadcast_id, resolved>>

AnswersStatistics(f) == f \in {"ping", "statistics"}

\* "if frame_type == "ping":"
IsPing(f) == f = "ping"

ResolvesAnyWatch(f) == f \in {"currentstream", "statistics", "othercommand"}

\* "if frame_type == "watch": ... elif command == "currentstream":"
Resolves(f) == f = "currentstream"

\* Frames whose handling raises: json without "type", or a watch frame
\* without body.command.
Malformed(f) == f = "notype"

NotCancelled(h) == h

\* heartbeat.cancel(): a task that has not ended is cancelled.
Cancelled(h) == IF h \in {"send", "sleep"} THEN "cancelled" ELSE h

\* "frame = json.loads(await websocket.recv())" and the tests of its type
\* and command: a ping goes on to the pong, currentstream to
\* generate_stream, a frame without "type" raises KeyError, which leaves
\* the function and closes the socket; after any other frame the loop
\* receives again.
NRecv ==
    /\ npc = "recv"
    /\ sock = "open"
    /\ Len(nrecv) < MaxInbound
    /\ \E f \in ServerFrames :
         /\ nrecv' = Append(nrecv, f)
         /\ IF IsPing(f)
            THEN /\ npc' = "pong"
                 /\ UNCHANGED <<sock, outcome, resolved>>
            ELSE IF Malformed(f)
            THEN /\ npc' = "raised"
                 /\ sock' = "closed"
                 /\ outcome' = "KeyError"
                 /\ UNCHANGED resolved
            ELSE IF Resolves(f)
            THEN /\ npc' = "resolving"
                 /\ resolved' = resolved + 1
                 /\ UNCHANGED <<sock, outcome>>
            ELSE UNCHANGED <<npc, sock, outcome, resolved>>
    /\ UNCHANGED <<video_len, threads, planVars, mtVars, ssVars, hbVars,
                   intVars, plVars, selVars, dlVars, hpc, nsent, slept,
                   broadcast_id>>

\* "await websocket.send(json.dumps(PONG_FRAME))"; on a closed connection
\* the send raises ConnectionClosed, which the loop's handler catches.
NPong ==
    /\ npc = "pong"
    /\ IF sock = "open"
       THEN /\ nsent' = Append(nsent, PongFrame)
            /\ npc' = "recv"
            /\ UNCHANGED hpc
       ELSE /\ npc' = "closed"
            /\ hpc' = Cancelled(hpc)
            /\ UNCHANGED nsent
    /\ UNCHANGED <<video_len, threads, outcome, planVars, mtVars, ssVars,
                   hbVars, intVars, plVars, selVars, dlVars, sock, nrecv,
                   slept, broadcast_id, resolved>>

\* generate_stream(session, stream_url) returns or raises: it is an
\* ordinary function that waits for session.get inside the coroutine.
\* Its errors are not caught; leaving the function closes the socket.
NResolve ==
    /\ npc = "resolving"
    /\ \E e \in {"none", "HTTPError", "FormatNotAvailableException"} :
         IF e = "none"
         THEN /\ npc' = "recv"
              /\ UNCHANGED <<sock, outcome>>
         ELSE /\ npc' = "raised"
              /\ sock' = "closed"
              /\ outcome' = e
    /\ UNCHANGED <<video_len, threads, planVars, mtVars, ssVars, hbVars,
                   intVars, plVars, selVars, dlVars, hpc, nsent, nrecv,
                   slept, broadcast_id, resolved>>

\* The server or the network closes the connection.
SockClose ==
    /\ sock = "open"
    /\ sock' = "closed"
    /\ UNCHANGED <<video_len, threads, outcome, planVars, mtVars, ssVars,
                   hbVars, intVars, plVars, selVars, dlVars, npc, hpc, nsent, nrecv,
                   slept, broadcast_id, resolved>>

\* "except websockets.exceptions.ConnectionClosed: heartbeat.cancel();
\* return"
NClosed ==
    /\ npc = "recv"
    /\ sock = "closed"
    /\ npc' = "closed"
    /\ hpc' = Cancelled(hpc)
    /\ UNCHANGED <<video_len, threads, outcome, planVars, mtVars, ssVars,
                   hbVars, intVars, plVars, selVars, dlVars, sock, nsent, nrecv,
                   slept, broadcast_id, resolved>>

\* The event loop can run another task: the coroutine of
\* open_nama_websocket waits in an await, not inside generate_stream.
LoopFree == npc # "resolving"

\* "await websocket.send(json.dumps(watching_frame))" in the task; on a
\* closed connection the send raises and the task ends.
HSend ==
    /\ hpc = "send"
    /\ ~MainOver
    /\ LoopFree
    /\ HeartbeatMaySend(nrecv)
    /\ IF sock = "open"
       THEN /\ nsent' = Append(nsent, WatchingFrame(broadcast_id))
            /\ hpc' = "sleep"
       ELSE /\ hpc' = "dead"
            /\ UNCHANGED nsent
    /\ UNCHANGED <<video_len, threads, outcome, planVars, mtVars, ssVars,
                   hbVars, intVars, plVars, selVars, dlVars, npc, sock, nrecv, slept,
                   broadcast_id, resolved>>

\* "await asyncio.sleep(NAMA_HEARTBEAT_INTERVAL_S)" is over.
HWake ==
    /\ hpc = "sleep"
    /\ ~MainOver
    /\ Cardinality(Watchings) < MaxWatching
    /\ slept' = slept + NAMA_HEARTBEAT_INTERVAL_S
    /\ hpc' = "send"
    /\ UNCHANGED <<video_len, threads, outcome, planVars, mtVars, ssVars,
                   hbVars, intVars, plVars, selVars, dlVars, npc, sock, nsent, nrecv,
                   broadcast_id, resolved>>

NextNama ==
    \/ NConnect
    \/ NPermit
    \/ NCreateTask
    \/ NRecv
    \/ NPong
    \/ NResolve
    \/ SockClose
    \/ NClosed
    \/ HSend
    \/ HWake

SpecNama == InitNama /\ [][NextNama]_vars

\* The event loop runs a task that is ready; what the server sends, and
\* when, is not assumed.
FairSpecNama ==
    /\ SpecNama
    /\ WF_vars(NPermit)
    /\ WF_vars(NCreateTask)
    /\ WF_vars(NPong)
    /\ WF_vars(NResolve)
    /\ WF_vars(HSend)
    /\ WF_vars(HWake)

\* ---------------------------------------------------------------------
\* The choice of a stream from a master playlist (get_playlist_from_m3u8)
\* ---------------------------------------------------------------------
MaxVariants == 3

\* The text BANDWIDTH=(\d+) captures: decimal digits, most significant
\* first.  500 is written both as 500 and as 0500.
BandwidthTexts == {<<0>>, <<5, 0, 0>>, <<0, 5, 0, 0>>, <<1, 5, 0, 0>>}

Slugs == {"a.m3u8", "b.m3u8", "c.m3u8"}

\* What M3U8_STREAM_RE.findall gives for one variant entry: match[0] is
\* the bandwidth text, match[1] the line after the tag.
Match(b, u) == [bandwidth |-> b, uri |-> u]

Variants == {Match(b, u) : b \in BandwidthTexts, u \in Slugs}

RECURSIVE Decimal(_)
\* int() of a text of decimal digits.
Decimal(d) ==
    IF d = <<>> THEN 0
    ELSE 10 * Decimal(SubSeq(d, 1, Len(d) - 1)) + d[Len(d)]

\* "stream_bandwidth = int(match[0])"
stream_bandwidth(match) == Decimal(match.bandwidth)

AtLeast(bw, best) == bw >= best

\* "if stream_bandwidth > best_bandwidth:"
Better(bw, best) == bw > best

RECURSIVE BestFrom(_, _, _)
\* "for match in matches:" with best_bandwidth and best_stream as they
\* stand before the rest ms of the list.
BestFrom(ms, best_bandwidth, best) ==
    IF ms = <<>> THEN best
    ELSE IF Better(stream_bandwidth(Head(ms)), best_bandwidth)
         THEN BestFrom(Tail(ms), stream_bandwidth(Head(ms)),
                       Str(Head(ms).uri))
         ELSE BestFrom(Tail(ms), best_bandwidth, best)

\* "best_bandwidth, best_stream = -1, None" ... "return best_stream"
get_playlist_from_m3u8(ms) == BestFrom(ms, -1, None)

InitPL ==
    /\ matches \in SeqsUpTo(Variants, MaxVariants)
    /\ best_stream = None
    /\ plpc = "called"
    /\ video_len = 0
    /\ threads = 0
    /\ outcome = "none"
    /\ i = 0
    /\ parts = <<>>
    /\ MTIdle
    /\ SSIdle
    /\ HBIdle
    /\ IntIdle
    /\ SelIdle
    /\ force_high_quality = FALSE
    /\ DLIdle
    /\ NamaIdle

\* "if not matches: raise FormatNotAvailableException(...)"
PLNoVariant ==
    /\ plpc = "called"
    /\ matches = <<>>
    /\ plpc' = "raised"
    /\ outcome' = "FormatNotAvailableException"
    /\ UNCHANGED <<matches, best_stream>>
    /\ UNCHANGED <<video_len, threads, planVars, mtVars, ssVars, hbVars,
                   intVars, selVars, dlVars, namaVars>>

\* "else: for match in matches: ..." and "return best_stream"
PLSelect ==
    /\ plpc = "called"
    /\ matches # <<>>
    /\ best_stream' = get_playlist_from_m3u8(matches)
    /\ plpc' = "returned"
    /\ UNCHANGED matches
    /\ UNCHANGED <<video_len, threads, outcome, planVars, mtVars, ssVars,
                   hbVars, intVars, selVars, dlVars, namaVars>>

NextPL == PLNoVariant \/ PLSelect

SpecPL == InitPL /\ [][NextPL]_vars

\* ---------------------------------------------------------------------
\* Properties
\* ---------------------------------------------------------------------
Span(p) == p.start..(p.end - 1)

\* C1: once the dispatch loop has computed all ranges, the partitions are
\* contiguous from 0, each has start <= end <= video_len, they are pairwise
\* non-overlapping, the last ends at video_len and their union is
\* [0, video_len).  (SpecPlan)
C1_PartitionsCoverExactly ==
    (mpc = "idle" /\ i = threads) =>
        /\ Len(parts) = threads
        /\ parts[1].start = 0
        /\ parts[threads].end = video_len
        /\ \A k \in 1..(threads - 1) : parts[k].end = parts[k + 1].start
        /\ \A k \in 1..threads :
               parts[k].start <= parts[k].end /\ parts[k].end <= video_len
        /\ \A j, k \in 1..threads :
               j # k => Span(parts[j]) \cap Span(parts[k]) = {}
        /\ UNION {Span(parts[k]) : k \in 1..threads} = 0..(video_len - 1)

\* C2: at most one worker is between the load and the store of the counter,
\* and whenever no worker is in between, the counter equals the sum of the
\* deltas reported so far.  (SpecMT)
C2_MutexNoLostUpdate ==
    /\ Cardinality({w \in Workers : wpc[w] = "store"}) <= 1
    /\ (\A w \in Workers : wpc[w] # "store") => progress = reported

\* C3: two distinct workers whose ranged requests were answered with the
\* bytes of their range never write the same file offset.  (SpecMT)
C3_DisjointWrites ==
    \A w1, w2 \in Workers :
        (w1 # w2 /\ honoured[w1] /\ honoured[w2])
            => written[w1] \cap written[w2] = {}

\* C4: the cumulative bytes-written value (the shared counter, the running
\* offset of the single stream) never exceeds video_len.  (SpecMT)
C4_WrittenAtMostLength == progress <= video_len /\ dl <= video_len

\* C5: when every worker has received the bytes of its range, written them
\* and ended, the shared counter equals video_len.  (SpecMT)
C5_FinalCounterIsLength ==
    (threads > 0 /\ \A w \in Workers : wpc[w] = "done" /\ honoured[w])
        => progress = video_len

\* C6: if a worker has failed (of a download of a non-empty video),
\* download_video does not report the download as finished.  (SpecMT)
C6_WorkerFailureNotFinished ==
    (video_len > 0 /\ \E w \in Workers : wpc[w] = "failed")
        => outcome # "finished"

AllWorkersDone ==
    threads > 0 /\ video_len > 0 /\ \A w \in Workers : wpc[w] = "done"

\* C7: whenever all workers have ended successfully, download_video
\* eventually reports the download as finished.  (FairSpecMT)
C7_EventuallyFinished == [](AllWorkersDone => <>(outcome = "finished"))

\* C8: download_video reports the download as finished only when every
\* worker it started has ended.  (SpecMT)
C8_FinishedAfterWorkers ==
    outcome = "finished" => \A w \in Workers : WorkerEnded(w)

C8_Witness ==
    /\ outcome = "finished"
    /\ threads >= 2
    /\ \A w \in Workers : wpc[w] = "done"

\* The existing file is shorter than the remote content and at least one
\* block long.
Resumable ==
    /\ file0.isfile
    /\ Len(file0.data) >= BLOCK_SIZE
    /\ Len(file0.data) < Len(remote)

LastBlock(d) == SubSeq(d, Len(d) - BLOCK_SIZE + 1, Len(d))

RemoteAtLastBlock(d) == SubSeq(remote, Len(d) - BLOCK_SIZE + 1, Len(d))

TailMatches == Resumable /\ LastBlock(file0.data) = RemoteAtLastBlock(file0.data)

IsPrefix == file0.data = SubSeq(remote, 1, Len(file0.data))

\* What a download without an existing file leaves: the remote content.
FreshResult ==
    (spc = "done" /\ ~file0.isfile /\ outcome = "finished")
        => file = FileOf(remote)

\* C9 as stated: with an existing file whose last block matches the remote
\* bytes, whatever precedes that block, a finished download leaves the
\* remote content.  (SpecSS)
C9_ResumeAnyPrefix ==
    (spc = "done" /\ outcome = "finished" /\ TailMatches)
        => file = FileOf(remote)

\* C9 amended: with an existing file that is a prefix of the remote content
\* (so its last block matches), the download ends finished, unless a request
\* failed, with the file a download without an existing file leaves.
\* (SpecSS)
C9_ResumeOfPrefix ==
    /\ FreshResult
    /\ (spc = "done" /\ TailMatches /\ IsPrefix)
          => (netfail \/ (outcome = "finished" /\ file = FileOf(remote)))

C9_Witness ==
    /\ spc = "done"
    /\ TailMatches
    /\ IsPrefix
    /\ Len(file0.data) > BLOCK_SIZE
    /\ restarts = 0
    /\ outcome = "finished"
    /\ file = FileOf(remote)

\* The block of the existing file the check compares: its last BLOCK_SIZE
\* bytes, or all of it when it is shorter.
OverlapFrom(d) == Max(0, Len(d) - BLOCK_SIZE)

TailDiffers ==
    /\ file0.isfile
    /\ Len(file0.data) < Len(remote)
    /\ SubSeq(file0.data, OverlapFrom(file0.data) + 1, Len(file0.data))
         # SubSeq(remote, OverlapFrom(file0.data) + 1, Len(file0.data))

\* C10: with an existing file, shorter than the remote content, whose last
\* block differs from the remote bytes at the same offsets, the file is
\* deleted, the download restarted once, and it ends finished, unless a
\* request failed, with the remote content.  (SpecSS)
C10_MismatchRestarts ==
    /\ (TailDiffers /\ spc = "head" /\ restarts > 0) => ~file.isfile
    /\ (TailDiffers /\ spc \in {"open", "loop"}) => restarts = 1
    /\ (spc = "done" /\ TailDiffers)
          => (netfail \/ (/\ outcome = "finished"
                          /\ restarts = 1
                          /\ file = FileOf(remote)))

C10_Witness ==
    /\ spc = "done"
    /\ TailDiffers
    /\ Len(file0.data) > BLOCK_SIZE
    /\ restarts = 1
    /\ outcome = "finished"
    /\ file = FileOf(remote)

\* What follows the comparison: the download goes on at offset S only
\* when S - BLOCK_SIZE > 0 and the overlap is equal, and starts at byte 0
\* without the file otherwise.
AfterComparison ==
    /\ (spc = "open" /\ file.isfile)
          => /\ restarts = 0
             /\ Len(file0.data) - BLOCK_SIZE > 0
             /\ ~TailDiffers
             /\ dl = Len(file0.data)
    /\ (spc = "open" /\ ~file.isfile) => dl = 0
    /\ (spc \in {"open", "loop", "done"} /\ file0.isfile /\ restarts = 0
          /\ Len(file0.data) < Len(remote) /\ ~netfail)
          => (Len(file0.data) - BLOCK_SIZE > 0 /\ ~TailDiffers)

\* C11: for an existing file shorter than the remote content the request
\* starts at max(0, S - BLOCK_SIZE); the download then either restarts from
\* byte 0 without the file (S - BLOCK_SIZE <= 0 or the overlap differs) or
\* goes on writing at offset S.  (SpecSS)
C11_ResumeOffsets ==
    /\ (spc = "get" /\ file.isfile)
          => resume_from = Max(0, current_byte_pos - BLOCK_SIZE)
    /\ AfterComparison

\* C12: the download restarts at most once; after the restart there is no
\* file to compare with; a failed request or a length error ends the
\* download where it is.  (SpecSS)
C12_RestartAtMostOnce ==
    /\ restarts <= 1
    /\ (restarts = 1 /\ spc \in {"isfile", "get", "compare"}) => ~file.isfile
    /\ outcome \in {"HTTPError", "FormatNotAvailableException"}
          => spc = "done"
    /\ (netfail /\ file0.isfile /\ restarts = 0) => file = file0

C12_Witness ==
    /\ spc = "done"
    /\ restarts = 1
    /\ outcome = "finished"
    /\ file0.isfile

\* The heartbeat requests sent for session v, in order.
SentFor(v) == SelectSeq(hblog, LAMBDA e : e.video = v)

\* Entry k is the first heartbeat of its session.
FirstOfSession(k) ==
    \A j \in 1..(k - 1) : hblog[j].video # hblog[k].video

\* C13: once the download attempt of a session has ended (completed or
\* failed) while the run goes on, its renewal timer is cancelled: no
\* heartbeat of that session is sent after the end of its transfer and
\* no timer of it is left pending or running.  (SpecHB)
C13_RenewalStopsWithTransfer ==
    /\ \A k \in 1..Len(hblog) : ~hblog[k].after_end
    /\ \A v \in Videos :
          (ended[v] /\ cpc # "stopped") => timer[v] \notin {"pending", "running"}

\* C14: whatever lifetime the server advertises, every heartbeat is sent
\* strictly before that lifetime has elapsed since the last successful
\* heartbeat of the session (or since its negotiation).  (SpecHB)
C14_RenewedBeforeExpiry ==
    \A k \in 1..Len(hblog) : hblog[k].since < lifetime

\* C15: every heartbeat carries as its body the session document of the
\* immediately preceding successful response of its session (the
\* negotiation response for the first one, heartbeat k's response for
\* heartbeat k+1), and no document is sent twice.  (SpecHB)
C15_ReplaysPreviousResponse ==
    /\ \A k \in 1..Len(hblog) : hblog[k].body = ToXml(hblog[k].prev)
    /\ \A j, k \in 1..Len(hblog) :
          (j < k /\ hblog[j].video = hblog[k].video)
             => hblog[j].body # hblog[k].body

C15_Witness ==
    /\ Len(hblog) >= 3
    /\ hblog[2].by = "timer"
    /\ hblog[3].by = "timer"
    /\ hblog[2].video = hblog[3].video
    /\ hblog[3].prev.ver = 2

\* C16: after a heartbeat sent from the timer has failed, the session's
\* timer is dead for good and no further heartbeat of the session is
\* sent; the failure itself changes nothing of the caller's transfer,
\* which can go on writing blocks.  (SpecHB)
C16_FailedRenewalEndsChain ==
    [][ /\ \A v \in Videos :
             hbfailed[v] => /\ timer'[v] = "dead"
                            /\ SentFor(v)' = SentFor(v)
        /\ (\E v \in Videos : hbfailed'[v] /\ ~hbfailed[v])
             => UNCHANGED <<cur, cpc, tblocks, treq, outcome, ended>>
        /\ (hbfailed[cur] /\ cpc = "blocks" /\ tblocks < MaxBlocks)
             => ENABLED CBlock
      ]_vars

C16_Witness ==
    /\ hbfailed[cur]
    /\ timer[cur] = "dead"
    /\ cpc = "blocks"
    /\ tblocks > 0
    /\ ~ended[cur]

\* C17: a failed negotiation (error status, or no content_uri in the
\* answer) raises out of the run; no heartbeat is sent or scheduled for
\* it and neither the HEAD nor the GET of its transfer is issued.  (SpecHB)
C17_FailedNegotiationSendsNothing ==
    \A v \in Videos :
       negfailed[v] => /\ SentFor(v) = <<>>
                       /\ timer[v] = "none"
                       /\ treq[v] = 0
                       /\ cpc = "stopped"
                       /\ outcome \in {"HTTPError", "IndexError"}

C17_Witness ==
    /\ negfailed[2]
    /\ outcome = "IndexError"
    /\ SentFor(1) # <<>>
    /\ treq[1] > 0

\* C18: the first heartbeat of a session is sent by the timer one
\* interval after the negotiation response, and while the caller is
\* between negotiation and transfer the timer is pending.  (SpecHB)
C18_FirstRenewalAfterInterval ==
    /\ \A k \in 1..Len(hblog) :
          FirstOfSession(k) => /\ hblog[k].by = "timer"
                               /\ hblog[k].since = DMC_HEARTBEAT_INTERVAL_S
    /\ \A v \in Videos :
          (held[v] # NoNode /\ ~ended[v]) => timer[v] # "none"

\* C19: no heartbeat round trip runs on the caller's path: the caller
\* never waits for a heartbeat answer, every heartbeat is sent from the
\* timer thread.  (SpecHB)
C19_RenewalOffDownloadPath ==
    /\ cpc # "heartbeat"
    /\ \A k \in 1..Len(hblog) : hblog[k].by # "caller"

\* C20: once the interrupt has been handled, no partition worker sends
\* its request or writes to the file any more, and when the process
\* exits every worker that was started has ended (was joined) instead of
\* being cut off while it runs.  (SpecInt)
C20_InterruptStopsWorkers ==
    [][ /\ ipc # "running"
             => /\ written' = written
                /\ \A w \in Workers : wpc[w] = "request" => wpc'[w] = "request"
        /\ ipc' = "exited"
             => \A w \in Workers : wpc'[w] \in {"unstarted", "done", "failed"}
      ]_vars

\* The call of select_dmc_quality is over.
SelectOver == selpc \in {"returned", "raised"}

\* C26: for a non-empty source list the first source is stored and
\* returned, without error, whenever --force-high-quality is set or no
\* quality is requested or the requested one is "highest"; with the force
\* flag this is so for every requested value.  (SpecSel)
C26_FirstWhenForcedOrHighest ==
    (/\ SelectOver
     /\ sources # <<>>
     /\ \/ force_high_quality
        \/ ~Truthy(quality)
        \/ Lower(quality.s) = "highest")
       => /\ outcome = "none"
          /\ selected.ret = <<sources[1]>>
          /\ template_params = sources[1]

C26_Witness ==
    /\ selpc = "returned"
    /\ force_high_quality
    /\ quality = Str("lowest")
    /\ Len(sources) = 3
    /\ sources[1] # sources[3]
    /\ template_params = sources[1]

\* C27: for a non-empty source list and no force flag, the request
\* "lowest" stores and returns the last source.  (SpecSel)
C27_LowestIsLast ==
    (/\ SelectOver
     /\ sources # <<>>
     /\ ~force_high_quality
     /\ Truthy(quality)
     /\ Lower(quality.s) = "lowest")
       => /\ outcome = "none"
          /\ selected.ret = <<sources[Len(sources)]>>
          /\ template_params = sources[Len(sources)]

C27_Witness ==
    /\ selpc = "returned"
    /\ ~force_high_quality
    /\ quality = Str("lowest")
    /\ Len(sources) = 3
    /\ sources[3] \notin {sources[1], sources[2]}
    /\ template_params = sources[3]

\* The positions of the sources whose id is the requested one, letter
\* case ignored.
MatchAt == {k \in 1..Len(sources) : Lower(sources[k]) = Lower(quality.s)}

C21_ErrorsBeforeDelivery ==
    (selpc = "raised" \/ outcome \in {"ArgumentException", "ValueError"})
       => ops = <<>> /\ file = file0

\* The thread count was given as a number.
ThreadsGiven(n) == Truthy(opt_threads) /\ opt_threads.s = n

\* C24: with a thread count of 1 a shorter existing file is resumed on
\* the single-stream path: the download arrives at the ranged GET of
\* that path with the file as it was, never at the dispatch loop with
\* the file created anew.  (SpecDL)
C24_OneThreadResumes ==
    (/\ ThreadsGiven("1")
     /\ file0.isfile
     /\ Len(file0.data) > 0
     /\ Len(file0.data) < Len(remote))
       => /\ dpc # "dispatch"
          /\ file = file0

\* C25: a thread count given as 0 or as a negative number ends the
\* download with ArgumentException once the HEAD request is answered: the
\* file is never opened and the dispatch loop never reached; without a
\* thread count the download takes the single-stream path.  (SpecDL)
C25_ZeroThreadsRejected ==
    /\ (ThreadsGiven("0") \/ ThreadsGiven("-1"))
          => /\ dpc \notin {"pad", "dispatch", "isfile", "get", "returned"}
             /\ file = file0
             /\ "OPEN" \notin {ops[k] : k \in 1..Len(ops)}
             /\ (dpc = "stopped" /\ Len(ops) = 3 /\ outcome # "HTTPError")
                   => outcome = "ArgumentException"
    /\ ~Truthy(opt_threads)
          => /\ dpc \notin {"threads", "pad", "dispatch"}
             /\ outcome # "ArgumentException"

C25_Witness ==
    /\ ThreadsGiven("0")
    /\ dpc = "stopped"
    /\ outcome = "ArgumentException"
    /\ file0.isfile
    /\ Len(file0.data) > 0
    /\ file = file0

\* C22: when the existing file is exactly as long as the video, the
\* single-stream download returns normally without sending the ranged
\* GET and the file stays as it was.  (SpecSS)
C22_EqualSizeIsNoOp ==
    (file0.isfile /\ Len(file0.data) = Len(remote))
       => /\ spc \in {"head", "isfile", "done"}
          /\ file = file0
          /\ restarts = 0
          /\ (spc = "done" /\ ~netfail) => outcome = "exists"

C22_Witness ==
    /\ spc = "done"
    /\ outcome = "exists"
    /\ Len(file0.data) = MaxRemote
    /\ file = file0

\* C23: when the existing file is longer than the video, the
\* single-stream download raises the length error, with and without
\* --force-high-quality; the ranged GET is never sent and the file stays
\* as it was.  (SpecSS)
C23_LongerFileFails ==
    (file0.isfile /\ Len(file0.data) > Len(remote))
       => /\ spc \in {"head", "isfile", "done"}
          /\ file = file0
          /\ restarts = 0
          /\ (spc = "done" /\ ~netfail)
                => outcome = "FormatNotAvailableException"

C23_Witness ==
    /\ spc = "done"
    /\ outcome = "FormatNotAvailableException"
    /\ ~force_high_quality
    /\ Len(remote) > 0
    /\ Len(file0.data) > Len(remote)
    /\ file = file0

\* C29: the first frame sent on the live socket is the permit frame with
\* the broadcast id, sent before any frame was read; the heartbeat task
\* does not exist before it is sent.  (SpecNama)
C29_PermitFirst ==
    /\ nsent # <<>>
          => /\ nsent[1].command = "getpermit"
             /\ nsent[1].id = broadcast_id
             /\ nsent[1].seen = 0
    /\ \A k \in 2..Len(nsent) : nsent[k].command # "getpermit"
    /\ (hpc # "none" \/ nrecv # <<>>) => nsent # <<>>

C29_Witness ==
    /\ Len(nsent) >= 3
    /\ nsent[1] = [type |-> "watch", command |-> "getpermit",
                   id |-> broadcast_id, at |-> 0, seen |-> 0]
    /\ \E k \in 2..Len(nsent) : nsent[k].type = "pong"
    /\ Watchings # {}

\* While the socket is open and open_nama_websocket runs, the heartbeat
\* task is alive; its watching frames carry the broadcast id and follow
\* each other after one sleep of the interval each.
HeartbeatRuns ==
    /\ (npc = "recv" /\ sock = "open") => hpc \in {"send", "sleep"}
    /\ \A k \in Watchings :
          /\ nsent[k].id = broadcast_id
          /\ nsent[k].at = NAMA_HEARTBEAT_INTERVAL_S
                              * Cardinality({j \in Watchings : j < k})

Pings == {k \in 1..Len(nrecv) : nrecv[k] = "ping"}

Pongs == {k \in 1..Len(nsent) : nsent[k].type = "pong"}

\* C31: every pong is the fixed pong frame and answers the ping that was
\* the last frame received when it was sent; no ping is answered twice;
\* whenever the loop receives again, and whenever a later frame has been
\* received, every ping has its pong.  (SpecNama)
C31_OnePongPerPing ==
    /\ \A k \in Pongs :
          /\ nsent[k].seen \in Pings
          /\ nsent[k].command = "" /\ nsent[k].id = ""
    /\ \A j, k \in Pongs : j # k => nsent[j].seen # nsent[k].seen
    /\ \A q \in Pings :
          (q < Len(nrecv) \/ npc = "recv")
             => \E k \in Pongs : nsent[k].seen = q

C31_Witness ==
    /\ Cardinality(Pings) = MaxInbound
    /\ Cardinality(Pongs) = MaxInbound
    /\ npc = "recv"

\* C32: when the receive loop has returned on a closed connection the
\* heartbeat task is cancelled (or has ended by itself), and no frame is
\* sent from then on.  (SpecNama)
C32_CancelledOnClose ==
    /\ [](npc = "closed" => hpc \in {"cancelled", "dead"})
    /\ [][npc = "closed" => nsent' = nsent]_vars

C32_Witness ==
    /\ npc = "closed"
    /\ hpc = "cancelled"
    /\ Cardinality(Watchings) >= 2

\* The bandwidths of the entries, as numbers.
Bandwidths == {stream_bandwidth(matches[k]) : k \in 1..Len(matches)}

\* The first position that holds the largest bandwidth of the list.
FirstMax ==
    CHOOSE k \in 1..Len(matches) :
        /\ \A b \in Bandwidths : b <= stream_bandwidth(matches[k])
        /\ \A j \in 1..(k - 1) :
               stream_bandwidth(matches[j]) < stream_bandwidth(matches[k])

LastFrame == nrecv[Len(nrecv)]

\* C34: generate_stream is called once for every currentstream frame
\* received, also for a repeated one, and for no other frame; only a ping
\* makes the loop send a frame; after a statistics frame, a watch frame
\* with another command and a frame of another type the loop receives
\* again with nothing raised.  (SpecNama)
C34_FrameDispatch ==
    /\ resolved = Cardinality({k \in 1..Len(nrecv) :
                                  nrecv[k] = "currentstream"})
    /\ \A k \in 2..Len(nsent) :
          \/ nsent[k].command = "watching"
          \/ nsent[k].type = "pong" /\ nrecv[nsent[k].seen] = "ping"
    /\ (nrecv # <<>>
          /\ LastFrame \in {"statistics", "othercommand", "other"})
          => /\ npc \in {"recv", "closed"}
             /\ outcome = "none"

C34_Witness ==
    /\ nrecv = <<"currentstream", "currentstream">>
    /\ resolved = 2
    /\ npc = "recv"
    /\ sock = "open"

\* C35: when the receive loop is left by an error (generate_stream
\* raises, or a frame is malformed), the heartbeat task has been
\* cancelled.  (SpecNama)
C35_CancelledOnError ==
    (npc = "raised" /\ nrecv # <<>>) => hpc \in {"cancelled", "dead"}

\* C36: while generate_stream runs for a currentstream frame and the
\* socket is open, a watching frame that is due can be sent.  (SpecNama)
C36_KeepaliveDuringResolution ==
    (npc = "resolving" /\ sock = "open" /\ hpc = "send") => ENABLED HSend

====
